---- MODULE Spec2Model ----
(***************************************************************************)
(* A model of the DBSCAN engine of dbscan/dbscan.py: the DBSCAN object     *)
(* (its parameters and its three result attributes), fit() with its loop   *)
(* over the points, and the two module functions                           *)
(* get_distances_from_other_points and square_to_condensed.                *)
(*                                                                         *)
(* Numbers.  Points have integer coordinates.  A Euclidean distance is     *)
(* held as its square (an integer), and eps is held in half units (the     *)
(* value 3 stands for eps = 1.5), so that `distance < eps' is decided      *)
(* exactly: sqrt(d2) < e/2  iff  e > 0 and 4*d2 < e*e.                     *)
(* square_to_condensed divides with `/' (a float in Python); j*(j+1) is    *)
(* even, so the quotient is the integer computed here, and ndarray.take    *)
(* converts the list of such floats to the indices of the same value.      *)
(***************************************************************************)
EXTENDS Integers, Sequences, FiniteSets, TLC

VARIABLES
    eps,                    \* self._eps, in half units
    min_samples,            \* self._min_samples
    core_sample_indices_,   \* self.core_sample_indices_
    components_,            \* self.components_
    labels_,                \* self.labels_
    pc,                     \* "constructed", "loop", "returned", "raised"
    err,                    \* the exception a raised fit ended with
    data,                   \* fit's argument
    distance_matrix,        \* fit's local: pdist(data)
    n,                      \* fit's local: len(data)
    i,                      \* the loop variable of _get_core_sample_indices
    core_sample_indices,    \* the list _get_core_sample_indices builds
    distances,              \* the last result of get_distances_from_other_points
    lookups                 \* the calls of square_to_condensed of this fit: <<i, j, offset>>

vars == <<eps, min_samples, core_sample_indices_, components_, labels_, pc, err,
          data, distance_matrix, n, i, core_sample_indices, distances, lookups>>

attrs == <<core_sample_indices_, components_, labels_>>

(***************************************************************************)
(* Bounds and input sets                                                   *)
(***************************************************************************)
MaxN == 4

Points == {<<0, 0>>, <<1, 0>>}

\* get_two_clusters() of the test file
TwoClusters == <<(<<1, 3>>), (<<2, 2>>), (<<3, 1>>), (<<6, 8>>), (<<7, 7>>), (<<8, 6>>), (<<1, 8>>)>>

Datasets == UNION {[1..m -> Points] : m \in 1..MaxN} \cup {TwoClusters}

\* eps = 0, 1, 1.5 (half units)
EpsValues == {0, 2, 3}

MinSamplesValues == {0, 1, 2, 3}

(***************************************************************************)
(* Values                                                                  *)
(***************************************************************************)
\* Python's None, and an array or list value, as one type
None == [isNone |-> TRUE, v |-> <<>>]

ndarray(s) == [isNone |-> FALSE, v |-> s]

Range(s) == {s[k] : k \in DOMAIN s}

Min(a, b) == IF a <= b THEN a ELSE b

(***************************************************************************)
(* Library functions, by what they compute                                 *)
(***************************************************************************)
\* the Euclidean distance of two points, squared
euclidean(p, q) == (p[1] - q[1]) * (p[1] - q[1]) + (p[2] - q[2]) * (p[2] - q[2])

\* scipy's pdist: the distances of the pairs a < b, row by row
RECURSIVE pdist_from(_, _)
pdist_from(X, a) ==
    IF a >= Len(X) THEN <<>>
    ELSE [k \in 1..(Len(X) - a) |-> euclidean(X[a], X[a + k])] \o pdist_from(X, a + 1)

pdist(X) == pdist_from(X, 1)

\* range(a, b), repeat(x, k), zip(s, t) of Python, as sequences
range(a, b) == IF b > a THEN [k \in 1..(b - a) |-> a + k - 1] ELSE <<>>

repeat(x, k) == [t \in 1..k |-> x]

zip(s, t) == [k \in 1..Min(Len(s), Len(t)) |-> <<s[k], t[k]>>]

\* ndarray.take (mode='raise'): an index is in bounds, negative ones counting from the end
in_bounds(a, k) == -Len(a) <= k /\ k < Len(a)

item(a, k) == IF k >= 0 THEN a[k + 1] ELSE a[Len(a) + k + 1]

\* mutant: a point at distance eps counts as well
less_than_or_equal(d2, e) == e >= 0 /\ 4 * d2 <= e * e

\* distances < self._eps, elementwise
less_than(d2, e) == e > 0 /\ 4 * d2 < e * e

(***************************************************************************)
(* square_to_condensed                                                     *)
(***************************************************************************)
\* mutant: the arguments are not put in order
square_to_condensed_noswap(a, b, m) == m * b - (b * (b + 1)) \div 2 + a - 1 - b

\* the value returned when the assertion i != j holds
square_to_condensed(a, b, m) ==
    LET hi == IF a < b THEN b ELSE a
        lo == IF a < b THEN a ELSE b
    IN  m * lo - (lo * (lo + 1)) \div 2 + hi - 1 - lo

(***************************************************************************)
(* get_distances_from_other_points                                         *)
(***************************************************************************)
\* mutant: the second range starts at i
square_indices_diag(p, m) == zip(repeat(p, m), range(0, p) \o range(p, m))

square_indices(p, m) == zip(repeat(p, m), range(0, p) \o range(p + 1, m))

\* mutant: the points above i come first
condensed_indices_rev(p, m) ==
    LET sq == zip(repeat(p, m), range(p + 1, m) \o range(0, p))
    IN  [k \in DOMAIN sq |-> square_to_condensed(sq[k][1], sq[k][2], m)]

condensed_indices(p, m) ==
    LET sq == square_indices(p, m)
    IN  [k \in DOMAIN sq |-> square_to_condensed(sq[k][1], sq[k][2], m)]

\* the assertion of square_to_condensed fails for one of the calls
asserts(p, m) == \E k \in DOMAIN square_indices(p, m) :
                    square_indices(p, m)[k][1] = square_indices(p, m)[k][2]

\* distance_matrix.take(condensed_indices) raises IndexError
take_fails(p, m, dm) == \E k \in DOMAIN condensed_indices(p, m) :
                            ~in_bounds(dm, condensed_indices(p, m)[k])

get_distances_from_other_points(p, m, dm) ==
    [k \in DOMAIN condensed_indices(p, m) |-> item(dm, condensed_indices(p, m)[k])]

\* the calls of square_to_condensed made for point p
calls(p, m) ==
    [k \in DOMAIN square_indices(p, m) |->
        <<square_indices(p, m)[k][1], square_indices(p, m)[k][2], condensed_indices(p, m)[k]>>]

(***************************************************************************)
(* _get_core_sample_indices, one point                                     *)
(***************************************************************************)
num_less_than_eps(ds, e) == Cardinality({k \in DOMAIN ds : less_than(ds[k], e)}) + 1

is_core(ds, e, ms) == num_less_than_eps(ds, e) >= ms

(***************************************************************************)
(* data.take(core_sample_indices_, axis=0)                                 *)
(***************************************************************************)
\* mutant: the rows are taken one further
take_rows_shifted(X, idx) == [k \in DOMAIN idx |-> item(X, idx[k] - 1)]

take_rows(X, idx) == [k \in DOMAIN idx |-> item(X, idx[k])]

(***************************************************************************)
(* The engine                                                              *)
(***************************************************************************)
\* DBSCAN.__init__
Init ==
    /\ eps \in EpsValues
    /\ min_samples \in MinSamplesValues
    /\ core_sample_indices_ = None
    /\ components_ = None
    /\ labels_ = None
    /\ pc = "constructed"
    /\ err = "none"
    /\ data = <<>>
    /\ distance_matrix = <<>>
    /\ n = 0
    /\ i = 0
    /\ core_sample_indices = <<>>
    /\ distances = <<>>
    /\ lookups = <<>>

\* fit(data), to the start of the loop of _get_core_sample_indices
FitCall(X) ==
    /\ pc \in {"constructed", "returned", "raised"}
    /\ data' = X
    /\ distance_matrix' = pdist(X)
    /\ n' = Len(X)
    /\ i' = 0
    /\ core_sample_indices' = <<>>
    /\ distances' = <<>>
    /\ lookups' = <<>>
    /\ pc' = "loop"
    /\ err' = "none"
    /\ UNCHANGED <<eps, min_samples, attrs>>

\* one iteration of the loop `for i in range(n)'
CoreStep ==
    /\ pc = "loop"
    /\ i < n
    /\ lookups' = lookups \o calls(i, n)
    /\ IF asserts(i, n)
       THEN /\ pc' = "raised"
            /\ err' = "AssertionError"
            /\ UNCHANGED <<i, core_sample_indices, distances>>
       ELSE IF take_fails(i, n, distance_matrix)
       THEN /\ pc' = "raised"
            /\ err' = "IndexError"
            /\ UNCHANGED <<i, core_sample_indices, distances>>
       ELSE /\ distances' = get_distances_from_other_points(i, n, distance_matrix)
            /\ core_sample_indices' =
                  IF is_core(distances', eps, min_samples)
                  THEN Append(core_sample_indices, i)
                  ELSE core_sample_indices
            /\ i' = i + 1
            /\ UNCHANGED <<pc, err>>
    /\ UNCHANGED <<eps, min_samples, attrs, data, distance_matrix, n>>

\* the loop is over: the two assignments of fit, and its return
FitReturn ==
    /\ pc = "loop"
    /\ i = n
    /\ core_sample_indices_' = ndarray(core_sample_indices)
    /\ IF \E k \in DOMAIN core_sample_indices : ~in_bounds(data, core_sample_indices[k])
       THEN /\ pc' = "raised"
            /\ err' = "IndexError"
            /\ UNCHANGED components_
       ELSE /\ components_' = ndarray(take_rows(data, core_sample_indices))
            /\ pc' = "returned"
            /\ UNCHANGED err
    /\ UNCHANGED <<eps, min_samples, labels_, data, distance_matrix, n, i,
                   core_sample_indices, distances, lookups>>

\* the loop is over and found no core point: np.array([]) is an array of
\* float64, which take() refuses as indices (TypeError: no safe cast to an
\* integer type) after core_sample_indices_ is assigned.  The outcome rests on
\* numpy, so both are kept: FitReturn is that of a numpy accepting the array.
FitTakeTypeError ==
    /\ pc = "loop"
    /\ i = n
    /\ core_sample_indices = <<>>
    /\ core_sample_indices_' = ndarray(core_sample_indices)
    /\ pc' = "raised"
    /\ err' = "TypeError"
    /\ UNCHANGED <<eps, min_samples, components_, labels_, data, distance_matrix, n, i,
                   core_sample_indices, distances, lookups>>

Next ==
    \/ \E X \in Datasets : FitCall(X)
    \/ CoreStep
    \/ FitReturn
    \/ FitTakeTypeError

Spec == Init /\ [][Next]_vars

(***************************************************************************)
(* What the claims speak of                                                *)
(***************************************************************************)
\* fit assigned core_sample_indices_ for the current data
CoreAssigned == pc = "returned" \/ (pc = "raised" /\ err = "TypeError")

\* the points, 0-based
Indices == 0..(Len(data) - 1)

\* the distance of points p and q of the data is strictly less than eps
Within(p, q) == eps > 0 /\ 4 * euclidean(data[p + 1], data[q + 1]) < eps * eps

\* the size of the eps-neighbourhood of p, itself included
NeighbourCount(p) == Cardinality({q \in Indices : q # p /\ Within(p, q)}) + 1

CorePoints == {p \in Indices : NeighbourCount(p) >= min_samples}

\* the core points in ascending order
ExpectedCore == SelectSeq(range(0, Len(data)), LAMBDA p : p \in CorePoints)

\* the k-th (from 1) of 0..n-1 with p left out
OtherPoint(p, k) == IF k - 1 < p THEN k - 1 ELSE k

\* the number of unordered pairs of m points
NumPairs(m) == (m * (m - 1)) \div 2

(* C1: after fit, a point is in core_sample_indices_ iff the number of other
   points at a distance strictly less than eps, plus one, is at least
   min_samples. *)
C1_CoreCount ==
    CoreAssigned =>
        /\ ~core_sample_indices_.isNone
        /\ \A p \in Indices :
              (p \in Range(core_sample_indices_.v)) <=> (NeighbourCount(p) >= min_samples)

\* a fit returned in which a core point has exactly min_samples points in its
\* neighbourhood and leaves out a point at distance exactly eps
C1_Witness ==
    /\ pc = "returned"
    /\ \E p, q \in Indices :
          /\ 4 * euclidean(data[p + 1], data[q + 1]) = eps * eps
          /\ eps > 0
          /\ NeighbourCount(p) = min_samples
          /\ p \in Range(core_sample_indices_.v)
          /\ q \notin Range(core_sample_indices_.v)

(* C2: after fit returns, labels_ is a sequence of length n whose entries
   are -1 or a cluster id (there are at most n clusters). *)
C2_LabelDomain ==
    pc = "returned" =>
        /\ ~labels_.isNone
        /\ Len(labels_.v) = Len(data)
        /\ \A k \in DOMAIN labels_.v : labels_.v[k] \in -1..(Len(data) - 1)

(* C3: after fit returns, a point is labelled -1 iff it is not a core point
   and no core point lies within eps of it. *)
C3_NoiseCorrect ==
    pc = "returned" =>
        /\ ~labels_.isNone
        /\ Len(labels_.v) = Len(data)
        /\ \A p \in Indices :
              (labels_.v[p + 1] = -1) <=>
                  (p \notin CorePoints /\ ~\E c \in CorePoints : Within(p, c))

(* C4: for n >= 2, square_to_condensed is symmetric in i and j, and on the
   pairs 0 <= j < i < n it is n*j - j*(j+1)/2 + (i-j-1), one to one and onto
   0 .. n*(n-1)/2 - 1; the offsets fit computed are those. *)
C4_Bijection ==
    n >= 2 =>
        LET pairs == {pr \in (0..(n - 1)) \X (0..(n - 1)) : pr[2] < pr[1]}
        IN  /\ \A pr \in pairs :
                  /\ square_to_condensed(pr[1], pr[2], n) = square_to_condensed(pr[2], pr[1], n)
                  /\ square_to_condensed(pr[1], pr[2], n) =
                         n * pr[2] - (pr[2] * (pr[2] + 1)) \div 2 + (pr[1] - pr[2] - 1)
            /\ \A p1, p2 \in pairs :
                  square_to_condensed(p1[1], p1[2], n) = square_to_condensed(p2[1], p2[2], n)
                      => p1 = p2
            /\ {square_to_condensed(pr[1], pr[2], n) : pr \in pairs} = 0..(NumPairs(n) - 1)
            /\ \A k \in DOMAIN lookups :
                  lookups[k][3] = square_to_condensed(lookups[k][2], lookups[k][1], n)

\* a fit of four points looked the last offset up from both sides
C4_Witness ==
    /\ pc = "returned"
    /\ n = 4
    /\ \E k1, k2 \in DOMAIN lookups :
          /\ lookups[k1][1] < lookups[k1][2]
          /\ lookups[k2][1] = lookups[k1][2]
          /\ lookups[k2][2] = lookups[k1][1]
          /\ lookups[k1][3] = NumPairs(n) - 1
          /\ lookups[k2][3] = NumPairs(n) - 1

(* C5: get_distances_from_other_points(i, n, pdist(data)) returns n-1
   values, the k-th the distance of point i and the k-th of 0..n-1 without
   i. *)
C5_DistancesFromOthers ==
    ((pc = "loop" \/ CoreAssigned) /\ i >= 1) =>
        /\ Len(distances) = n - 1
        /\ \A k \in 1..(n - 1) :
              distances[k] = euclidean(data[i], data[OtherPoint(i - 1, k) + 1])

\* the distances of a point with points below and above it, at different
\* distances
C5_Witness ==
    /\ pc = "loop"
    /\ n = 4
    /\ i = 2
    /\ distances[1] # distances[2]
    /\ distances[2] # distances[3]

(* C6: after fit returns, core_sample_indices_ is strictly ascending and
   components_ holds, in the same order, the rows of the data at these
   indices. *)
C6_Components ==
    pc = "returned" =>
        /\ ~core_sample_indices_.isNone
        /\ ~components_.isNone
        /\ \A k \in 1..(Len(core_sample_indices_.v) - 1) :
              core_sample_indices_.v[k] < core_sample_indices_.v[k + 1]
        /\ Len(components_.v) = Len(core_sample_indices_.v)
        /\ \A k \in DOMAIN components_.v :
              components_.v[k] = data[core_sample_indices_.v[k] + 1]

\* a fit returned several core points, not all the points and not the first,
\* whose rows differ
C6_Witness ==
    /\ pc = "returned"
    /\ Len(core_sample_indices_.v) >= 2
    /\ Len(core_sample_indices_.v) < n
    /\ core_sample_indices_.v[1] > 0
    /\ components_.v[1] # components_.v[2]

(* C7: no engine with eps <= 0 or min_samples < 1 reaches fit and returns a
   result (stated for data of at least 2 points, which fit is to accept). *)
C7_InvalidParameterRejected ==
    (pc = "returned" /\ Len(data) >= 2) => (eps > 0 /\ min_samples >= 1)

(* C8: fit on fewer than 2 points never returns a result: it fails with
   InvalidInput (stated for an engine of valid parameters). *)
C8_TooFewPointsRejected ==
    (pc \in {"returned", "raised"} /\ Len(data) < 2 /\ eps > 0 /\ min_samples >= 1) =>
        (pc = "raised" /\ err = "InvalidInput")

(* C9: after the last call of fit, however it ended, core_sample_indices_
   and components_ are those of the last data (labels_ is never assigned):
   nothing of an earlier fit is left (stated for an engine of valid
   parameters and data of at least 2 points). *)
C9_HistoryIndependent ==
    (pc \in {"returned", "raised"} /\ Len(data) >= 2 /\ eps > 0 /\ min_samples >= 1) =>
        /\ core_sample_indices_ = ndarray(ExpectedCore)
        /\ \/ components_ = ndarray([k \in DOMAIN ExpectedCore |-> data[ExpectedCore[k] + 1]])
           \/ components_ = None

(* C10: during fit, square_to_condensed is called with i # j, both in
   0..n-1; every offset is in 0 .. n*(n-1)/2 - 1, inside the distance
   table; no assertion fails and no read is out of range; once the loop is
   over n*(n-1) lookups were made, two for each unordered pair. *)
C10_Lookups ==
    /\ err \notin {"AssertionError", "IndexError"}
    /\ \A k \in DOMAIN lookups :
          /\ lookups[k][1] # lookups[k][2]
          /\ lookups[k][1] \in 0..(n - 1)
          /\ lookups[k][2] \in 0..(n - 1)
          /\ lookups[k][3] \in 0..(NumPairs(n) - 1)
          /\ lookups[k][3] < Len(distance_matrix)
    /\ CoreAssigned =>
          /\ Len(lookups) = n * (n - 1)
          /\ \A a, b \in 0..(n - 1) :
                a < b => Cardinality({k \in DOMAIN lookups :
                                         {lookups[k][1], lookups[k][2]} = {a, b}}) = 2

\* a fit of four points finished its loop, twelve lookups made
C10_Witness ==
    /\ CoreAssigned
    /\ n = 4
    /\ Len(lookups) = n * (n - 1)
    /\ \E k \in DOMAIN lookups : lookups[k][3] = Len(distance_matrix) - 1

====
